---- MODULE Spec2Model ----
(***************************************************************************)
(* Model of TableMigrator.migrate_table (oracle_table_migration/migration/ *)
(* migrator.py) together with the SchemaValidator and DatabaseConnection   *)
(* calls it makes.  One call migrates one table; the two databases are   *)
(* the environment: every statement sent to them may fail.                 *)
(***************************************************************************)
EXTENDS Integers, Sequences, FiniteSets, TLC

VARIABLES
    src,                        \* source database: the table, its columns, its rows
    tgt,                        \* target database: the table, its columns, its committed rows
    pending,                    \* rows inserted in the open target transaction
    migrate_indexes_globally,   \* TableMigrator.migrate_indexes_globally
    args,                       \* arguments of the current call
    pc,                         \* position inside migrate_table
    table_exists,               \* local of migrate_table
    schemas_match,              \* local of migrate_table
    row_count,                  \* local of migrate_table
    column_types,               \* local of migrate_table
    rows_processed,             \* local of migrate_table
    chunk,                      \* the batch yielded by the generator
    cursor,                     \* the source cursor of _get_data_in_chunks
    indexes,                    \* indexes still to be processed by the index loop
    success,                    \* local of _migrate_indexes_for_table
    log,                        \* DDL, count, cursor, DML and index statements of the current
                                \* call, in order (dictionary look-ups are not recorded)
    entry,                      \* the databases as they were when the call started
    observed,                   \* what lines 220-221 returned to the call
    result,                     \* what the call returned
    yielded,                    \* the batches the generator has yielded in the current call
    calls,                      \* migrate_table calls started in the run
    open_cursors,               \* source cursors of earlier calls that are still open
    fn,                         \* the last call of a helper function: its input and output
    index_run,                  \* _migrate_indexes_for_table in the current call: what it
                                \* discovered, attempted and returned
    main,                       \* main: its stage, the configured tables, its counters and
                                \* its exit status
    previous                    \* outcome of the previous call on the same table

vars == <<src, tgt, pending, migrate_indexes_globally, args, pc,
          table_exists, schemas_match, row_count, column_types,
          rows_processed, chunk, cursor, indexes, success, log, entry,
          observed, result, yielded, calls, open_cursors, fn,
          index_run, main, previous>>

---------------------------------------------------------------------------
(* Bounds *)

MaxRows == 3          \* rows of the source table
MaxTgtRows == 1       \* rows the target table holds before the first call
MaxChunk == 2         \* chunk_size
MaxCustomRows == 1    \* rows returned by a custom query
MaxIndexes == 2       \* indexes discovered on the source table
MaxWidth == 3         \* width of the rows a custom query returns
MaxCalls == 2         \* tables migrated in one run
MaxName == 3          \* characters of an index name after its padding
MaxTableName == 2
MaxCols == 2     \* characters of the name of the table owning an index

None == -1            \* Python's None in an integer position

---------------------------------------------------------------------------
(* Column definitions as get_table_schema returns them *)

Col(n, t, l, p, s, nl) ==
    [name |-> n, data_type |-> t, data_length |-> l,
     data_precision |-> p, data_scale |-> s, nullable |-> nl]

ColId == Col("ID", "NUMBER", 22, 10, 0, "N")
ColName == Col("NAME", "VARCHAR2", 50, None, None, "Y")
ColNameLong == Col("NAME", "VARCHAR2", 100, None, None, "Y")
ColNameNotNull == Col("NAME", "VARCHAR2", 50, None, None, "N")

SrcSchemas == {<<ColId, ColName>>}
TgtSchemas == {<<ColId, ColName>>, <<ColId, ColNameLong>>, <<ColId, ColNameNotNull>>}

Behaviors == {"drop_and_recreate", "append_if_compatible", "invalid_behavior"}

NoQuery == [n |-> None, w |-> None]
\* a custom query is known by the rows it returns on the (static) source
CustomQueries == [n : 0..MaxCustomRows, w : 1..MaxWidth]

Repeat(x, n) == [i \in 1..n |-> x]

\* a statement sent to a database: what, whether it succeeded, batch or index number
Ev(op, ok, id) == [op |-> op, ok |-> ok, id |-> id]
Ops(l) == [i \in 1..Len(l) |-> l[i].op]
CountOp(l, op) == Cardinality({i \in 1..Len(l) : l[i].op = op})
HasOp(l, op) == \E i \in 1..Len(l) : l[i].op = op

---------------------------------------------------------------------------
(* SchemaValidator *)

\* table_exists: the count query; a failed query yields no row, hence False
TableExists(db, qok) == qok /\ db.exists

\* get_table_schema: a failed query yields no row, hence an empty list
GetTableSchema(db, qok) == IF qok /\ db.exists THEN db.schema ELSE <<>>

ColumnsDifferNullable(s_col, t_col) ==
    \/ s_col.name # t_col.name
    \/ s_col.data_type # t_col.data_type
    \/ s_col.data_length # t_col.data_length
    \/ s_col.data_precision # t_col.data_precision
    \/ s_col.data_scale # t_col.data_scale
    \/ s_col.nullable # t_col.nullable

\* lines 99-103: the test of one pair of columns
ColumnsDiffer(s_col, t_col) ==
    \/ s_col.name # t_col.name
    \/ s_col.data_type # t_col.data_type
    \/ s_col.data_length # t_col.data_length
    \/ s_col.data_precision # t_col.data_precision
    \/ s_col.data_scale # t_col.data_scale

SchemasMatchByCount(s, t, q1, q2, q3, q4) ==
    IF ~TableExists(s, q1) THEN FALSE
    ELSE IF ~TableExists(t, q2) THEN FALSE
    ELSE Len(GetTableSchema(s, q3)) = Len(GetTableSchema(t, q4))

\* schemas_match, q1..q4 telling which of its four queries succeed
SchemasMatch(s, t, q1, q2, q3, q4) ==
    IF ~TableExists(s, q1) THEN FALSE
    ELSE IF ~TableExists(t, q2) THEN FALSE
    ELSE LET source_schema == GetTableSchema(s, q3)
             target_schema == GetTableSchema(t, q4)
         IN IF Len(source_schema) # Len(target_schema) THEN FALSE
            ELSE ~ \E i \in 1..Len(source_schema) :
                       ColumnsDiffer(source_schema[i], target_schema[i])

SizeSuffixAlwaysScale(col) ==
    IF col.data_type = "NUMBER" /\ col.data_precision # None
    THEN IF col.data_scale # None
         THEN <<col.data_precision, col.data_scale>>
         ELSE <<col.data_precision>>
    ELSE IF col.data_type \in {"VARCHAR2", "CHAR"} THEN <<col.data_length>>
    ELSE IF col.data_type = "RAW"
         THEN <<IF col.data_length # None THEN col.data_length ELSE 2000>>
    ELSE <<>>

\* the size suffix generate_create_table_sql renders for a column
SizeSuffix(col) ==
    IF col.data_type = "NUMBER" /\ col.data_precision # None
    THEN IF col.data_scale # None /\ col.data_scale > 0
         THEN <<col.data_precision, col.data_scale>>
         ELSE <<col.data_precision>>
    ELSE IF col.data_type \in {"VARCHAR2", "CHAR"} THEN <<col.data_length>>
    ELSE IF col.data_type = "RAW"
         THEN <<IF col.data_length # None THEN col.data_length ELSE 2000>>
    ELSE <<>>

\* one column clause of the CREATE TABLE statement
ColumnClause(col) ==
    [name |-> col.name, data_type |-> col.data_type,
     size |-> SizeSuffix(col), not_null |-> (col.nullable = "N")]

\* generate_create_table_sql: the column clauses, in source column order
GenerateCreateTableSql(columns) ==
    [i \in 1..Len(columns) |-> ColumnClause(columns[i])]

\* lines 130-139: the text of a size suffix
SizeText(size) ==
    IF Len(size) = 0 THEN <<>>
    ELSE IF Len(size) = 1 THEN <<"(", ToString(size[1]), ")">>
    ELSE <<"(", ToString(size[1]), ",", ToString(size[2]), ")">>

\* lines 127-142: col_def, the text of one column clause
ColDef(col) ==
    LET cl == ColumnClause(col)
    IN <<cl.name, cl.data_type>> \o SizeText(cl.size)
           \o (IF cl.not_null THEN <<"NOT NULL">> ELSE <<>>)

\* str.rstrip(ch) on a line of text
RECURSIVE RStrip(_, _)
RStrip(line, ch) ==
    IF Len(line) > 0 /\ line[Len(line)] = ch
    THEN RStrip(SubSeq(line, 1, Len(line) - 1), ch)
    ELSE line

\* lines 118-151: sql_parts, the lines of the statement generate_create_table_sql
\* returns; no line (the empty string) when the schema read is empty
SqlParts(table_name, columns) ==
    IF columns = <<>> THEN <<>>
    ELSE LET parts == <<<<"CREATE TABLE", table_name, "(">>>>
                        \o [i \in 1..Len(columns) |-> ColDef(columns[i]) \o <<",">>]
         IN [parts EXCEPT ![Len(parts)] = RStrip(@, ",")] \o <<<<")">>>>

\* the column the target database makes of a clause
CreatedColumn(cl) ==
    Col(cl.name, cl.data_type,
        IF cl.data_type = "NUMBER" THEN 22
        ELSE IF Len(cl.size) > 0 THEN cl.size[1] ELSE None,
        IF cl.data_type = "NUMBER" /\ Len(cl.size) > 0 THEN cl.size[1] ELSE None,
        IF cl.data_type = "NUMBER" /\ Len(cl.size) > 0
        THEN (IF Len(cl.size) > 1 THEN cl.size[2] ELSE 0) ELSE None,
        IF cl.not_null THEN "N" ELSE "Y")

CreatedSchema(sql) == [i \in 1..Len(sql) |-> CreatedColumn(sql[i])]

---------------------------------------------------------------------------
(* The effective query of the call *)

UsesCustom(a) == a.mode = "custom" /\ a.custom_query # NoQuery

\* number of rows the effective query returns
QueryRows(a) == IF UsesCustom(a) THEN a.custom_query.n ELSE src.rows

\* width of the rows the effective query returns
QueryWidth(a) == IF UsesCustom(a) THEN a.custom_query.w ELSE Len(src.schema)

\* no helper function has been called
NoCall == [op |-> "none"]

\* _migrate_indexes_for_table has not been called
NoIndexRun == [discovered |-> <<>>, attempted |-> <<>>, raised |-> FALSE,
               returned |-> "none"]

\* main at a stage, with n configured tables and nothing counted yet
MainState(stage, n) ==
    [stage |-> stage, tables |-> n, success_count |-> 0, fail_count |-> 0,
     source |-> IF stage = "loop" THEN "connected" ELSE "none",
     target |-> IF stage = "loop" THEN "connected" ELSE "none",
     exit |-> None, summary |-> FALSE, returned |-> <<>>,
     constructed |-> IF stage = "loop" THEN 2 ELSE 0, disconnected |-> <<>>]

FinallySourceOnly(m) ==
    [m EXCEPT !.disconnected = IF m.constructed >= 1 THEN <<"source">> ELSE <<>>]

\* main, lines 96-101: the finally block calls disconnect on the connection
\* objects that were constructed (source_db at line 46, target_db at line 47)
Finally(m) ==
    [m EXCEPT !.disconnected =
        IF m.constructed = 2 THEN <<"source", "target">>
        ELSE IF m.constructed = 1 THEN <<"source">> ELSE <<>>]

\* main returns status: the finally block runs, then main is left
Exit(m, status) == Finally([m EXCEPT !.stage = "exited", !.exit = status])

\* the table has not been migrated before
NoPrevious == [result |-> "none", rows |-> 0, entry_rows |-> 0, recreated |-> FALSE]

---------------------------------------------------------------------------
\* a table as the source and the target database may hold it before a call
SourceTables ==
    [exists : {TRUE}, schema : SrcSchemas, rows : 0..MaxRows]
        \cup {[exists |-> FALSE, schema |-> <<>>, rows |-> 0]}
TargetTables ==
    {[exists |-> TRUE, schema |-> s, rows |-> Repeat(0, m)] :
        s \in TgtSchemas, m \in 0..MaxTgtRows}
        \cup {[exists |-> FALSE, schema |-> <<>>, rows |-> <<>>]}

\* a migrator and the table it is about to be called on; migrate_table has
\* not been called yet
InitMigrator ==
    /\ src \in SourceTables
    /\ tgt \in TargetTables
    /\ pending = <<>>
    /\ migrate_indexes_globally \in BOOLEAN
    /\ args = [behavior |-> "drop_and_recreate", mode |-> "full",
               custom_query |-> NoQuery, chunk_size |-> 1]
    /\ pc = "idle"
    /\ table_exists = FALSE
    /\ schemas_match = FALSE
    /\ row_count = 0
    /\ column_types = <<>>
    /\ rows_processed = 0
    /\ chunk = <<>>
    /\ cursor = [state |-> "none", pos |-> 0]
    /\ indexes = <<>>
    /\ success = TRUE
    /\ log = <<>>
    /\ entry = [tgt |-> tgt, src |-> src]
    /\ observed = [table_exists |-> FALSE, schemas_match |-> FALSE, blind |-> FALSE]
    /\ result = "none"
    /\ yielded = <<>>
    /\ calls = 0
    /\ open_cursors = 0
    /\ fn = NoCall
    /\ index_run = NoIndexRun
    /\ previous = NoPrevious

\* one table to migrate
Init ==
    /\ InitMigrator
    /\ main = MainState("loop", 1)

\* migrate_table returns v
Return(v) == /\ pc' = "idle"
             /\ result' = v

\* the caller invokes migrate_table
Call ==
    /\ pc = "idle"
    /\ result = "none"
    /\ \E b \in Behaviors, k \in 1..MaxChunk,
          q \in {[mode |-> "full", custom_query |-> NoQuery],
                 [mode |-> "custom", custom_query |-> NoQuery]}
                \cup [mode : {"custom"}, custom_query : CustomQueries] :
          args' = [behavior |-> b, mode |-> q.mode,
                   custom_query |-> q.custom_query, chunk_size |-> k]
    /\ pc' = "table_exists"
    /\ table_exists' = FALSE
    /\ schemas_match' = FALSE
    /\ row_count' = 0
    /\ column_types' = <<>>
    /\ rows_processed' = 0
    /\ chunk' = <<>>
    /\ cursor' = [state |-> "none", pos |-> 0]
    /\ indexes' = <<>>
    /\ success' = TRUE
    /\ log' = <<>>
    /\ entry' = [tgt |-> tgt, src |-> src]
    /\ observed' = [table_exists |-> FALSE, schemas_match |-> FALSE, blind |-> FALSE]
    /\ result' = "none"
    /\ yielded' = <<>>
    /\ calls' = calls + 1
    /\ index_run' = NoIndexRun
    /\ UNCHANGED <<src, tgt, pending, migrate_indexes_globally, open_cursors, fn,
                   main, previous>>

\* lines 220-221: table_exists on the target and, if it exists, schemas_match
CheckTarget ==
    /\ pc = "table_exists"
    /\ \E q0, q1, q2, q3, q4 \in BOOLEAN :
          /\ table_exists' = TableExists(tgt, q0)
          /\ schemas_match' = IF table_exists'
                              THEN SchemasMatch(src, tgt, q1, q2, q3, q4)
                              ELSE FALSE
          /\ observed' = [table_exists |-> table_exists',
                          schemas_match |-> schemas_match',
                          blind |-> schemas_match' /\ ~q3 /\ ~q4]
    /\ pc' = "reconcile"
    /\ UNCHANGED <<src, tgt, pending, migrate_indexes_globally, args,
                   row_count, column_types, rows_processed, chunk, cursor,
                   indexes, success, log, entry, result,
                   yielded, calls, open_cursors, fn,
                   index_run, main, previous>>

\* variants of the decision of lines 223-240
\* drop_and_recreate keeps a target whose schema already matches
ReconcileBranchKeepMatching(te, beh, sm) ==
    IF te
    THEN IF beh = "drop_and_recreate" THEN (IF sm THEN "append" ELSE "drop")
         ELSE IF beh = "append_if_compatible"
              THEN (IF ~sm THEN "incompatible" ELSE "append")
              ELSE "invalid"
    ELSE "create"

\* append_if_compatible without the compatibility test
ReconcileBranchNoGate(te, beh, sm) ==
    IF te
    THEN IF beh = "drop_and_recreate" THEN "drop"
         ELSE IF beh = "append_if_compatible" THEN "append"
              ELSE "invalid"
    ELSE "create"

\* the compatibility test inverted
ReconcileBranchInverted(te, beh, sm) ==
    IF te
    THEN IF beh = "drop_and_recreate" THEN "drop"
         ELSE IF beh = "append_if_compatible"
              THEN (IF sm THEN "incompatible" ELSE "append")
              ELSE "invalid"
    ELSE "create"

\* drop_and_recreate drops without looking at table_exists
ReconcileBranchBlindDrop(te, beh, sm) ==
    IF beh = "drop_and_recreate" THEN "drop"
    ELSE IF te
         THEN IF beh = "append_if_compatible"
              THEN (IF ~sm THEN "incompatible" ELSE "append")
              ELSE "invalid"
         ELSE "create"

\* append_if_compatible recreates a compatible target
ReconcileBranchRecreateCompatible(te, beh, sm) ==
    IF te
    THEN IF beh = "drop_and_recreate" THEN "drop"
         ELSE IF beh = "append_if_compatible"
              THEN (IF ~sm THEN "incompatible" ELSE "drop")
              ELSE "invalid"
    ELSE "create"

\* an unrecognized behaviour falls through to the copy
ReconcileBranchFallThrough(te, beh, sm) ==
    IF te
    THEN IF beh = "drop_and_recreate" THEN "drop"
         ELSE IF beh = "append_if_compatible"
              THEN (IF ~sm THEN "incompatible" ELSE "append")
              ELSE "append"
    ELSE "create"

\* lines 223-240: what the reconciliation does, from the two locals and the
\* configured behaviour
ReconcileBranch(te, beh, sm) ==
    IF te
    THEN IF beh = "drop_and_recreate" THEN "drop"
         ELSE IF beh = "append_if_compatible"
              THEN (IF ~sm THEN "incompatible" ELSE "append")
              ELSE "invalid"
    ELSE "create"

\* line 240: the table is created unless it (still) exists
AfterReconcile(te) == IF te THEN "row_count" ELSE "create"

\* variant: the result of drop_table is not looked at
AfterDropUnchecked(ok) == "create"

\* lines 226-230: where migrate_table goes after drop_table returned ok
AfterDrop(ok) == IF ok THEN "create" ELSE "return_false"

\* lines 223-238: the existing-table policy
ReconcileExisting ==
    /\ pc = "reconcile"
    /\ LET branch == ReconcileBranch(table_exists, args.behavior, schemas_match)
       IN CASE branch = "drop" ->
                 \E sok \in BOOLEAN :
                    LET ok == sok /\ tgt.exists
                    IN /\ log' = Append(log, Ev("DROP", ok, 0))
                       /\ tgt' = IF ok THEN [exists |-> FALSE, schema |-> <<>>,
                                             rows |-> <<>>]
                                 ELSE tgt
                       /\ IF AfterDrop(ok) = "create"
                          THEN /\ table_exists' = FALSE
                               /\ schemas_match' = FALSE
                               /\ pc' = AfterReconcile(table_exists')
                               /\ UNCHANGED result
                          ELSE /\ Return("false")
                               /\ UNCHANGED <<table_exists, schemas_match>>
            [] branch \in {"incompatible", "invalid"} ->
                 /\ Return("false")
                 /\ UNCHANGED <<tgt, log, table_exists, schemas_match>>
            [] branch \in {"append", "create"} ->
                 /\ pc' = AfterReconcile(table_exists)
                 /\ UNCHANGED <<tgt, log, table_exists, schemas_match, result>>
    /\ UNCHANGED <<src, pending, migrate_indexes_globally, args,
                   row_count, column_types, rows_processed, chunk, cursor,
                   indexes, success, entry, observed,
                   yielded, calls, open_cursors, fn,
                   index_run, main, previous>>

\* variant: an empty statement counts as success
CreateTableReturnEmptyOk(create_sql, ok) == IF Len(create_sql) = 0 THEN TRUE ELSE ok

\* create_table, lines 176-180: False without a statement, else the statement's result
CreateTableReturn(create_sql, ok) == IF Len(create_sql) = 0 THEN FALSE ELSE ok

\* lines 240-244 with create_table and generate_create_table_sql
CreateTable ==
    /\ pc = "create"
    /\ \E qok, sok \in BOOLEAN :
          LET columns == GetTableSchema(src, qok)
              create_sql == GenerateCreateTableSql(columns)
              ok == sok /\ ~tgt.exists
          IN /\ log' = IF Len(create_sql) = 0 THEN log
                       ELSE Append(log, Ev("CREATE", ok, 0))
             /\ tgt' = IF Len(create_sql) # 0 /\ ok
                       THEN [exists |-> TRUE, schema |-> CreatedSchema(create_sql),
                             rows |-> <<>>]
                       ELSE tgt
             /\ IF CreateTableReturn(create_sql, ok)
                THEN pc' = "row_count" /\ UNCHANGED result
                ELSE Return("false")
    /\ UNCHANGED <<src, pending, migrate_indexes_globally, args,
                   table_exists, schemas_match, row_count, column_types,
                   rows_processed, chunk, cursor, indexes, success, entry, observed,
                   yielded, calls, open_cursors, fn,
                   index_run, main, previous>>

\* execute_query on the count query: one row holding the count, or no row
\* when the query failed
CountQuery(a, qok) ==
    IF qok /\ (UsesCustom(a) \/ src.exists) THEN <<QueryRows(a)>> ELSE <<>>

\* variant: no result row counts as zero rows
GetRowCountZero(res) ==
    IF Len(res) = 0
    THEN [raised |-> FALSE, value |-> 0]
    ELSE [raised |-> FALSE, value |-> res[1]]

\* get_row_count, lines 120-126: the count, or an exception when the query
\* gave no result row
GetRowCount(res) ==
    IF Len(res) = 0
    THEN [raised |-> TRUE, value |-> 0]
    ELSE [raised |-> FALSE, value |-> res[1]]

\* variant: no early return on a zero count
AfterRowCountNoShortcut(rc) == "prepare"

\* lines 249-251: a zero count ends the call with success
AfterRowCount(rc) == IF rc = 0 THEN "return_true" ELSE "prepare"

\* lines 246-254
RowCount ==
    /\ pc = "row_count"
    /\ \E qok \in BOOLEAN :
          LET res == CountQuery(args, qok)
              r == GetRowCount(res)
          IN /\ log' = Append(log, Ev("COUNT", Len(res) > 0, 0))
             /\ IF r.raised
                THEN Return("false") /\ UNCHANGED row_count
                ELSE /\ row_count' = r.value
                     /\ IF AfterRowCount(r.value) = "return_true"
                        THEN Return("true")
                        ELSE pc' = "prepare" /\ UNCHANGED result
    /\ UNCHANGED <<src, tgt, pending, migrate_indexes_globally, args,
                   table_exists, schemas_match, column_types, rows_processed,
                   chunk, cursor, indexes, success, entry, observed,
                   yielded, calls, open_cursors, fn,
                   index_run, main, previous>>

\* lines 256-267: the source schema is read again, the INSERT is prepared and
\* the generator is created (its body has not started); setinputsizes may raise
Prepare ==
    /\ pc = "prepare"
    /\ \E qok, sok \in BOOLEAN :
          /\ column_types' = GetTableSchema(src, qok)
          /\ IF sok THEN pc' = "fetch" /\ UNCHANGED result
                    ELSE Return("raised")
    /\ UNCHANGED <<src, tgt, pending, migrate_indexes_globally, args,
                   table_exists, schemas_match, row_count, rows_processed,
                   chunk, cursor, indexes, success, log, entry, observed,
                   yielded, calls, open_cursors, fn,
                   index_run, main, previous>>

Min(a, b) == IF a < b THEN a ELSE b

\* number of the batch about to be fetched
NextBatch == CountOp(log, "FETCH") + 1

\* variant: a short last fetch is dropped
FetchManyDropPartial(k, remaining) == IF remaining < k THEN 0 ELSE k

\* cursor.fetchmany(chunk_size), line 167: the number of rows returned when
\* `remaining` rows of the result have not been fetched yet
FetchMany(k, remaining) == Min(k, remaining)

\* a cursor whose generator is abandoned before line 172 is reached (early
\* return of line 293, or an exception of line 164 or 167): the code never
\* closes it; whether the runtime has finalized it by the time the call
\* returns depends on the interpreter
Abandoned(c) == {[c EXCEPT !.state = "open"], [c EXCEPT !.state = "collected"]}

\* lines 162-172 and 276: the loop asks the generator for the next batch; the
\* first request opens the cursor, an empty fetch closes it and ends the loop
FetchBatch ==
    /\ pc = "fetch"
    /\ \E eok, fok \in BOOLEAN :
          LET first == cursor.state = "none"
              opened == eok /\ (UsesCustom(args) \/ src.exists)
              log1 == IF first THEN Append(log, Ev("OPEN", opened, 0)) ELSE log
              m == FetchMany(args.chunk_size, QueryRows(args) - cursor.pos)
              rows == [i \in 1..m |-> cursor.pos + i]
          IN IF first /\ ~opened
             THEN /\ log' = log1
                  /\ cursor' \in Abandoned(cursor)
                  /\ Return("raised")
                  /\ UNCHANGED <<chunk, yielded>>
             ELSE IF ~fok
             THEN /\ log' = Append(log1, Ev("FETCH", FALSE, NextBatch))
                  /\ cursor' \in Abandoned(cursor)
                  /\ Return("raised")
                  /\ UNCHANGED <<chunk, yielded>>
             ELSE IF m = 0
             THEN /\ log' = Append(Append(log1, Ev("FETCH", TRUE, NextBatch)),
                                   Ev("CLOSE", TRUE, 0))
                  /\ cursor' = [cursor EXCEPT !.state = "closed"]
                  /\ chunk' = <<>>
                  /\ pc' = "after_copy"
                  /\ UNCHANGED <<result, yielded>>
             ELSE /\ log' = Append(log1, Ev("FETCH", TRUE, NextBatch))
                  /\ cursor' = [state |-> "open", pos |-> cursor.pos + m]
                  /\ chunk' = rows
                  /\ yielded' = Append(yielded, rows)
                  /\ pc' = "insert"
                  /\ UNCHANGED result
    /\ UNCHANGED <<src, tgt, pending, migrate_indexes_globally, args,
                   table_exists, schemas_match, row_count, column_types,
                   rows_processed, indexes, success, entry, observed,
                   calls, open_cursors, fn,
                   index_run, main, previous>>

\* convert_row_values, lines 93-96: zip stops at the shorter of row and columns
ConvertedWidth(w, cols) == Min(w, Len(cols))

\* whether the target accepts the INSERT built by prepare_insert_statement
\* with tuples of the given width
InsertAccepted(t, cols, width) ==
    /\ t.exists
    /\ Len(cols) > 0
    /\ width = Len(cols)
    /\ \A i \in 1..Len(cols) : \E j \in 1..Len(t.schema) : t.schema[j].name = cols[i].name

\* variant: the handler also drops the partly filled table
OnInsertErrorDropTable(l) ==
    Append(Append(l, Ev("ROLLBACK", TRUE, 0)), Ev("DROP", TRUE, 0))

\* variant: the handler returns without a rollback
OnInsertErrorNoRollback(l) == l

\* lines 290-293: the handler of a failed insert or commit
OnInsertError(l) == Append(l, Ev("ROLLBACK", TRUE, 0))

\* variant: the rollback leaves the rows of the open transaction in place
RollbackKeeps(p) == p

\* connection.rollback(), line 292: what is left of the rows inserted in the
\* open transaction
Rollback(p) == <<>>

\* variant: the next batch is fetched before the commit
AfterExecutemanyReadAhead == "fetch"

\* lines 283-284: after executemany succeeded the loop body commits
AfterExecutemany == "commit"

\* lines 277-283: convert the batch and executemany; a failing executemany
\* may have inserted some rows of the batch before the error
InsertBatch ==
    /\ pc = "insert"
    /\ \E sok \in BOOLEAN, j \in 0..(Len(chunk) - 1) :
          LET width == ConvertedWidth(QueryWidth(args), column_types)
              accepted == InsertAccepted(tgt, column_types, width)
              ok == sok /\ accepted
              partial == IF accepted THEN SubSeq(chunk, 1, j) ELSE <<>>
              b == CountOp(log, "FETCH")
          IN IF ok
             THEN /\ j = 0
                  /\ log' = Append(log, Ev("INSERT", TRUE, b))
                  /\ pending' = pending \o chunk
                  /\ pc' = AfterExecutemany
                  /\ UNCHANGED <<result, cursor>>
             ELSE /\ log' = OnInsertError(Append(log, Ev("INSERT", FALSE, b)))
                  /\ pending' = Rollback(pending \o partial)
                  /\ cursor' \in Abandoned(cursor)
                  /\ Return("false")
    /\ UNCHANGED <<src, tgt, migrate_indexes_globally, args,
                   table_exists, schemas_match, row_count, column_types,
                   rows_processed, chunk, indexes, success, entry, observed,
                   yielded, calls, open_cursors, fn,
                   index_run, main, previous>>

\* variant: the counter advances by the requested chunk size
AdvanceByChunkSize(c, k) == k

\* lines 286-288: chunk_size_actual, the amount the progress counter advances
\* by after batch c was committed with chunk size k
Advance(c, k) == Len(c)

\* lines 284-288: commit the batch and advance the progress counter
CommitBatch ==
    /\ pc = "commit"
    /\ \E ok \in BOOLEAN :
          LET b == CountOp(log, "FETCH")
          IN IF ok
             THEN /\ log' = Append(log, Ev("COMMIT", TRUE, b))
                  /\ tgt' = [tgt EXCEPT !.rows = tgt.rows \o pending]
                  /\ pending' = <<>>
                  /\ rows_processed' = rows_processed + Advance(chunk, args.chunk_size)
                  /\ pc' = "fetch"
                  /\ UNCHANGED <<result, cursor>>
             ELSE /\ log' = OnInsertError(Append(log, Ev("COMMIT", FALSE, b)))
                  /\ pending' = Rollback(pending)
                  /\ cursor' \in Abandoned(cursor)
                  /\ Return("false")
                  /\ UNCHANGED <<tgt, rows_processed>>
    /\ UNCHANGED <<src, migrate_indexes_globally, args,
                   table_exists, schemas_match, row_count, column_types,
                   chunk, indexes, success, entry, observed,
                   yielded, calls, open_cursors, fn,
                   index_run, main, previous>>

\* variant: indexes are migrated whatever the setting
IndexGateAlways(flag) == "indexes"

\* line 298: index migration runs only when migrate_indexes_globally is set
IndexGate(flag) == IF flag THEN "indexes" ELSE "return_true"

\* lines 295-303: after the loop
AfterCopy ==
    /\ pc = "after_copy"
    /\ IF IndexGate(migrate_indexes_globally) = "indexes"
       THEN pc' = "indexes" /\ UNCHANGED result
       ELSE Return("true")
    /\ UNCHANGED <<src, tgt, pending, migrate_indexes_globally, args,
                   table_exists, schemas_match, row_count, column_types,
                   rows_processed, chunk, cursor, indexes, success, log, entry, observed,
                   yielded, calls, open_cursors, fn,
                   index_run, main, previous>>

\* variant: index migration decides what migrate_table returns
IndexResultDecides(data_ok, index_ok) == data_ok /\ index_ok

\* lines 300-303: what migrate_table returns after index migration
MigrateTableReturn(data_ok, index_ok) == data_ok

DiscoveryReturnFalseOnFailedQuery(outcome, found) ==
    IF outcome # "listed" THEN "false"
    ELSE IF Len(found) = 0 THEN "true" ELSE "none"

\* lines 318-321 and 348-350: what _migrate_indexes_for_table returns right
\* after discovery ("none": it goes on to the loop)
DiscoveryReturn(outcome, found) ==
    IF outcome = "raised" THEN "false"
    ELSE IF Len(found) = 0 THEN "true" ELSE "none"

\* lines 316-321 and 348-350: discover the source indexes.  get_table_indexes
\* gives the list, or an empty list when its query failed; an exception (a
\* source connection without get_table_indexes, as main builds it) makes
\* _migrate_indexes_for_table return False.  No index found ends the call.
DiscoverIndexes ==
    /\ pc = "indexes"
    /\ \E outcome \in {"listed", "query_failed", "raised"}, n \in 0..MaxIndexes :
          LET found == IF outcome = "listed" THEN [i \in 1..n |-> i] ELSE <<>>
          IN /\ log' = IF outcome = "raised" THEN log
                       ELSE Append(log, Ev("DISCOVER", outcome = "listed", 0))
             /\ indexes' = found
             /\ success' = TRUE
             /\ index_run' =
                   [discovered |-> found, attempted |-> <<>>,
                    raised |-> (outcome = "raised"),
                    returned |-> DiscoveryReturn(outcome, found)]
             /\ IF Len(found) = 0
                THEN Return(IF MigrateTableReturn(TRUE, outcome # "raised")
                            THEN "true" ELSE "false")
                ELSE pc' = "index_loop" /\ UNCHANGED result
    /\ UNCHANGED <<src, tgt, pending, migrate_indexes_globally, args,
                   table_exists, schemas_match, row_count, column_types,
                   rows_processed, chunk, cursor, entry, observed,
                   yielded, calls, open_cursors, fn, main, previous>>

\* variant: the loop stops at the first index that fails
AfterIndexStopOnFailure(rest, ok) == IF Len(rest) = 0 \/ ~ok THEN "return" ELSE "next"

\* lines 324-346: the loop goes on to the next index whatever happened to
\* this one, and returns after the last
AfterIndex(rest, ok) == IF Len(rest) = 0 THEN "return" ELSE "next"

\* lines 324-346 and 300-303: one index of the loop: no DDL generated, an
\* exception, or CREATE INDEX sent and its result
MigrateIndex ==
    /\ pc = "index_loop"
    /\ \E outcome \in {"created", "create_failed", "no_ddl", "raised"} :
          LET index == Head(indexes)
              sent == outcome \in {"created", "create_failed"}
              ok == outcome = "created"
              ret == success /\ ok
          IN /\ log' = IF sent THEN Append(log, Ev("CREATE_INDEX", ok, index))
                       ELSE log
             /\ success' = ret
             /\ indexes' = Tail(indexes)
             /\ IF AfterIndex(Tail(indexes), ok) = "return"
                THEN /\ index_run' =
                          [index_run EXCEPT
                             !.attempted = Append(@, [index |-> index, ddl |-> sent,
                                                      created |-> ok]),
                             !.returned = IF ret THEN "true" ELSE "false"]
                     /\ Return(IF MigrateTableReturn(TRUE, ret) THEN "true" ELSE "false")
                ELSE /\ index_run' =
                          [index_run EXCEPT
                             !.attempted = Append(@, [index |-> index, ddl |-> sent,
                                                      created |-> ok])]
                     /\ UNCHANGED <<pc, result>>
    /\ UNCHANGED <<src, tgt, pending, migrate_indexes_globally, args,
                   table_exists, schemas_match, row_count, column_types,
                   rows_processed, chunk, cursor, entry, observed,
                   yielded, calls, open_cursors, fn, main, previous>>

Next ==
    \/ Call
    \/ CheckTarget
    \/ ReconcileExisting
    \/ CreateTable
    \/ RowCount
    \/ Prepare
    \/ FetchBatch
    \/ InsertBatch
    \/ CommitBatch
    \/ AfterCopy
    \/ DiscoverIndexes
    \/ MigrateIndex

Spec == Init /\ [][Next]_vars

---------------------------------------------------------------------------
(* A run over several tables: the loop of main *)

\* everything but main
mainVars == <<src, tgt, pending, migrate_indexes_globally, args, pc,
              table_exists, schemas_match, row_count, column_types,
              rows_processed, chunk, cursor, indexes, success, log, entry,
              observed, result, yielded, calls, open_cursors, fn,
              index_run, previous>>

\* 1 for a cursor that is open, 0 otherwise
OpenCount(c) == IF c.state = "open" THEN 1 ELSE 0

CountedAsSuccess(m, res) == [m EXCEPT !.success_count = @ + 1]

\* lines 78-81: the counters after a call that returned True or False
Counted(m, res) ==
    IF res = "true" THEN [m EXCEPT !.success_count = @ + 1]
    ELSE [m EXCEPT !.fail_count = @ + 1]

\* main, lines 66-81: migrate_table returned True or False, the table is
\* counted and the loop goes on to the next configured table; the locals of
\* the finished call are gone, and a cursor it left open stays open unless
\* the runtime has finalized it in the meantime
NextTable ==
    /\ pc = "idle"
    /\ main.stage = "loop"
    /\ result \in {"true", "false"}
    /\ calls < main.tables
    /\ main' = [Counted(main, result) EXCEPT !.returned = Append(@, result)]
    /\ src' \in SourceTables
    /\ tgt' \in TargetTables
    /\ open_cursors' \in 0..(open_cursors + OpenCount(cursor))
    /\ cursor' = [state |-> "none", pos |-> 0]
    /\ result' = "none"
    /\ args' = [behavior |-> "drop_and_recreate", mode |-> "full",
                custom_query |-> NoQuery, chunk_size |-> 1]
    /\ table_exists' = FALSE
    /\ schemas_match' = FALSE
    /\ row_count' = 0
    /\ column_types' = <<>>
    /\ rows_processed' = 0
    /\ chunk' = <<>>
    /\ indexes' = <<>>
    /\ success' = TRUE
    /\ log' = <<>>
    /\ yielded' = <<>>
    /\ entry' = [tgt |-> tgt', src |-> src']
    /\ observed' = [table_exists |-> FALSE, schemas_match |-> FALSE, blind |-> FALSE]
    /\ index_run' = NoIndexRun
    /\ UNCHANGED <<pending, migrate_indexes_globally, pc, calls, fn, previous>>

\* line 91: the exit status after the loop
ExitStatus(m) == IF m.fail_count = 0 THEN 0 ELSE 1

\* lines 78-91: the call for the last configured table returned True or
\* False; it is counted, the summary is printed and main returns
EndRun ==
    /\ pc = "idle"
    /\ main.stage = "loop"
    /\ result \in {"true", "false"}
    /\ calls = main.tables
    /\ main' = Exit([Counted(main, result) EXCEPT
                         !.summary = TRUE,
                         !.returned = Append(@, result)],
                     ExitStatus(Counted(main, result)))
    /\ UNCHANGED <<src, tgt, pending, migrate_indexes_globally, args, pc,
                   table_exists, schemas_match, row_count, column_types,
                   rows_processed, chunk, cursor, indexes, success, log, entry,
                   observed, result, yielded, calls, open_cursors, fn,
                   index_run, previous>>

\* lines 93-95: an exception that left migrate_table reaches the handler of
\* main, which returns 1; the tables not yet processed are skipped
RunAborted ==
    /\ pc = "idle"
    /\ main.stage = "loop"
    /\ result = "raised"
    /\ main' = Exit(main, 1)
    /\ UNCHANGED <<src, tgt, pending, migrate_indexes_globally, args, pc,
                   table_exists, schemas_match, row_count, column_types,
                   rows_processed, chunk, cursor, indexes, success, log, entry,
                   observed, result, yielded, calls, open_cursors, fn,
                   index_run, previous>>

\* a migrator built with its settings, and the loop of main over the
\* configured tables
InitRun ==
    /\ InitMigrator
    /\ main \in {MainState("loop", n) : n \in 1..MaxCalls}

NextRun ==
    \/ Next
    \/ NextTable
    \/ EndRun
    \/ RunAborted

SpecRun == InitRun /\ [][NextRun]_vars

---------------------------------------------------------------------------
(* The same table migrated twice *)

\* no statement of the call failed and nothing raised
NoFailure(l, ir) == (\A i \in 1..Len(l) : l[i].ok) /\ ~ir.raised

\* migrate_table has returned True and is called a second time on the same
\* table: the source is as it was, the target as the first call
\* left it; what the first call did is kept in previous
MigrateAgain ==
    /\ pc = "idle"
    /\ main.stage = "loop"
    /\ result = "true"
    /\ previous = NoPrevious
    /\ previous' = [result |-> result, rows |-> Len(tgt.rows),
                    entry_rows |-> Len(entry.tgt.rows),
                    recreated |-> /\ args.behavior = "drop_and_recreate"
                                  /\ ~UsesCustom(args)
                                  /\ result = "true"
                                  /\ NoFailure(log, index_run)]
    /\ open_cursors' \in 0..(open_cursors + OpenCount(cursor))
    /\ cursor' = [state |-> "none", pos |-> 0]
    /\ result' = "none"
    /\ args' = [behavior |-> "drop_and_recreate", mode |-> "full",
                custom_query |-> NoQuery, chunk_size |-> 1]
    /\ table_exists' = FALSE
    /\ schemas_match' = FALSE
    /\ row_count' = 0
    /\ column_types' = <<>>
    /\ rows_processed' = 0
    /\ chunk' = <<>>
    /\ indexes' = <<>>
    /\ success' = TRUE
    /\ log' = <<>>
    /\ yielded' = <<>>
    /\ entry' = [tgt |-> tgt, src |-> src]
    /\ observed' = [table_exists |-> FALSE, schemas_match |-> FALSE, blind |-> FALSE]
    /\ index_run' = NoIndexRun
    /\ UNCHANGED <<src, tgt, pending, migrate_indexes_globally, pc, calls, fn, main>>

NextTwice ==
    \/ Next
    \/ MigrateAgain

SpecTwice == Init /\ [][NextTwice]_vars

---------------------------------------------------------------------------
(* main from its start *)

\* variant: the result of connect is not looked at
AfterConnectUnchecked(ok, next) == next

\* lines 50-56: main returns 1 when connect returned False
AfterConnect(ok, next) == IF ok THEN next ELSE "exited"

\* lines 38-47 and 93-95: the configuration is loaded and the two connection
\* objects are constructed, the source one first; an exception on the way
\* (a missing or unreadable file, a missing section) leaves n of them
\* constructed, and main returns 1
LoadConfig ==
    /\ main.stage = "start"
    /\ \E n \in 0..2 :
          main' = IF n = 2
                  THEN [main EXCEPT !.stage = "configured", !.constructed = 2]
                  ELSE Exit([main EXCEPT !.constructed = n], 1)
    /\ UNCHANGED mainVars

\* lines 50-52: connect to the source database
ConnectSource ==
    /\ main.stage = "configured"
    /\ \E ok \in BOOLEAN :
          LET to == AfterConnect(ok, "source_connected")
              m == [main EXCEPT !.source = IF ok THEN "connected" ELSE "failed"]
          IN main' = IF to = "exited" THEN Exit(m, 1) ELSE [m EXCEPT !.stage = to]
    /\ UNCHANGED mainVars

\* lines 54-56: connect to the target database
ConnectTarget ==
    /\ main.stage = "source_connected"
    /\ \E ok \in BOOLEAN :
          LET to == AfterConnect(ok, "connected")
              m == [main EXCEPT !.target = IF ok THEN "connected" ELSE "failed"]
          IN main' = IF to = "exited" THEN Exit(m, 1) ELSE [m EXCEPT !.stage = to]
    /\ UNCHANGED mainVars

\* line 59 and lines 93-95: TableMigrator is called with two arguments, its
\* constructor (lines 14-15 of migrator.py) requires three, so the call
\* raises TypeError; the handler of main returns 1 and the loop of lines
\* 66-81 is never entered
CreateMigrator ==
    /\ main.stage = "connected"
    /\ main' = Exit(main, 1)
    /\ UNCHANGED mainVars

\* main is started on a configuration of up to MaxCalls tables
InitMain ==
    /\ InitMigrator
    /\ main \in {MainState("start", n) : n \in 0..MaxCalls}

NextMain ==
    \/ LoadConfig
    \/ ConnectSource
    \/ ConnectTarget
    \/ CreateMigrator

SpecMain == InitMain /\ [][NextMain]_vars

---------------------------------------------------------------------------
(* The helper functions of TableMigrator, called on their own *)

\* Python values: their type and their str() form
PyNone == [type |-> "NoneType", repr |-> "None"]
PyInt == [type |-> "int", repr |-> "123"]
PyBool == [type |-> "bool", repr |-> "True"]
PyStr(s) == [type |-> "str", repr |-> s]
Values == {PyNone, PyInt, PyBool, PyStr("test")}

\* str(value)
Str(value) == PyStr(value.repr)

ColCode == Col("CODE", "CHAR", 3, None, None, "Y")
ColCreated == Col("CREATED_DATE", "DATE", 7, None, None, "Y")
Columns == {ColId, ColName, ColCode, ColCreated}

\* lists of at most n elements of S
SeqsUpTo(S, n) == UNION {[1..m -> S] : m \in 0..n}

\* column lists as get_table_schema returns them: no column twice
Schemas ==
    {s \in SeqsUpTo(Columns, MaxWidth) :
        \A i, j \in 1..Len(s) : i # j => s[i] # s[j]}

\* convert_value, lines 74-80
ConvertValue(value, target_type) ==
    IF value = PyNone THEN PyNone
    ELSE IF target_type = "VARCHAR2" /\ value.type # "str" THEN Str(value)
    ELSE value

\* variant: the values are paired with the columns in reverse order
ConvertRowValuesReversed(row, cols) ==
    [i \in 1..ConvertedWidth(Len(row), cols) |->
        ConvertValue(row[i], cols[Len(cols) + 1 - i].data_type)]

\* convert_row_values, lines 93-96: zip pairs the values with the columns
\* and stops at the shorter of the two
ConvertRowValues(row, cols) ==
    [i \in 1..ConvertedWidth(Len(row), cols) |->
        ConvertValue(row[i], cols[i].data_type)]

\* line 258: the column names of a schema, in its order
ColumnNames(schema) == [i \in 1..Len(schema) |-> schema[i].name]

\* prepare_insert_statement, lines 198-201: the parts of
\* INSERT INTO table (columns) VALUES (:1, :2, ...)
PrepareInsertStatement(table_name, column_names) ==
    [table |-> table_name, columns |-> column_names,
     placeholders |-> [i \in 1..Len(column_names) |-> i]]

\* _get_data_in_chunks, lines 166-170, run to its end on a result of n rows
\* of which pos are fetched already: the batches it yields
RECURSIVE GetDataInChunks(_, _, _)
GetDataInChunks(pos, n, chunk_size) ==
    LET m == FetchMany(chunk_size, n - pos)
        rows == [i \in 1..m |-> pos + i]
    IN IF m = 0 THEN <<>>
       ELSE <<rows>> \o GetDataInChunks(pos + m, n, chunk_size)

\* Names are sequences of characters.
NameChars == {"T", "U", "_"}
TableChars == {"T", "U"}

\* Oracle's limit on the length of an identifier, line 90
NameLimit == 30

\* index names: a run of X of length 0 or about NameLimit, then at most
\* MaxName characters in which the table name may occur
IndexNames ==
    {Repeat("X", p) \o s :
        p \in {0} \cup (NameLimit - 2)..NameLimit, s \in SeqsUpTo(NameChars, MaxName)}
TableNames == SeqsUpTo(TableChars, MaxTableName) \ {<<>>}
TargetNames == SeqsUpTo(TableChars, MaxTableName + 1) \ {<<>>}

\* IndexDefinition, lines 11-18, without tablespace and columns
IndexDefinitions == [name : IndexNames, table_name : TableNames, is_unique : BOOLEAN]

\* str.replace(old, new) for a non-empty old: every occurrence of old, found
\* from the left without overlap, becomes new
RECURSIVE StrReplace(_, _, _)
StrReplace(s, old, new) ==
    IF Len(s) < Len(old) THEN s
    ELSE IF SubSeq(s, 1, Len(old)) = old
         THEN new \o StrReplace(SubSeq(s, Len(old) + 1, Len(s)), old, new)
         ELSE <<Head(s)>> \o StrReplace(Tail(s), old, new)

\* s[:n]
Prefix(s, n) == SubSeq(s, 1, Min(n, Len(s)))

\* variant: the adjusted name is not truncated
NewIndexNameUntruncated(index, target_table) ==
    IF Len(target_table) = Len(index.table_name) THEN index.name
    ELSE StrReplace(index.name, index.table_name, target_table)

\* generate_index_ddl, lines 85-90: the name of the index on the target
NewIndexName(index, target_table) ==
    IF Len(target_table) = Len(index.table_name) THEN index.name
    ELSE Prefix(StrReplace(index.name, index.table_name, target_table), NameLimit)

\* generate_index_ddl, lines 93-96: the parts of
\* CREATE [UNIQUE] INDEX name ON target_table (columns)
GenerateIndexDdl(index, target_table) ==
    [unique |-> index.is_unique, name |-> NewIndexName(index, target_table),
     table |-> target_table]

\* columns that differ from ID or NAME in exactly one field
ColIdWide == Col("ID", "NUMBER", 22, 12, 0, "N")
ColIdScaled == Col("ID", "NUMBER", 22, 10, 2, "N")
ColNameChar == Col("NAME", "CHAR", 50, None, None, "Y")
ColLabel == Col("LABEL", "VARCHAR2", 50, None, None, "Y")

\* tables schemas_match is applied to: a table that exists has a column
ComparedSources ==
    {[exists |-> TRUE, schema |-> s, rows |-> 0] :
        s \in SeqsUpTo({ColId, ColName}, MaxCols) \ {<<>>}}
        \cup {[exists |-> FALSE, schema |-> <<>>, rows |-> 0]}
ComparedTargets ==
    {[exists |-> TRUE, schema |-> s, rows |-> <<>>] :
        s \in SeqsUpTo({ColId, ColIdWide, ColIdScaled, ColName, ColNameLong,
                        ColNameNotNull, ColNameChar, ColLabel}, MaxCols) \ {<<>>}}
        \cup {[exists |-> FALSE, schema |-> <<>>, rows |-> <<>>]}

\* columns of every sizing case of generate_create_table_sql
DdlColumns ==
    {Col("ID", "NUMBER", 22, 10, 0, "N"),
     Col("N", "NUMBER", 22, None, None, "Y"),
     Col("QTY", "NUMBER", 22, 8, None, "Y"),
     Col("SALARY", "NUMBER", 22, 10, 2, "Y"),
     Col("ROUNDED", "NUMBER", 22, 10, -2, "N"),
     Col("NAME", "VARCHAR2", 100, None, None, "Y"),
     Col("CODE", "CHAR", 3, None, None, "N"),
     Col("HASH", "RAW", 16, None, None, "N"),
     Col("BLOCK", "RAW", None, None, None, "Y"),
     Col("CREATED_DATE", "DATE", 7, None, None, "Y"),
     Col("NOTE", "CLOB", 4000, None, None, "N")}

\* everything but fn
callVars == <<src, tgt, pending, migrate_indexes_globally, args, pc,
              table_exists, schemas_match, row_count, column_types,
              rows_processed, chunk, cursor, indexes, success, log, entry,
              observed, result, yielded, calls, open_cursors,
              index_run, main, previous>>

\* a migrator on which migrate_table is not called; the inputs of the helper
\* functions are drawn here
InitPure ==
    /\ src = [exists |-> TRUE, schema |-> <<ColId, ColName>>, rows |-> 0]
    /\ tgt = [exists |-> FALSE, schema |-> <<>>, rows |-> <<>>]
    /\ pending = <<>>
    /\ migrate_indexes_globally = FALSE
    /\ args = [behavior |-> "drop_and_recreate", mode |-> "full",
               custom_query |-> NoQuery, chunk_size |-> 1]
    /\ pc = "idle"
    /\ table_exists = FALSE
    /\ schemas_match = FALSE
    /\ row_count = 0
    /\ column_types = <<>>
    /\ rows_processed = 0
    /\ chunk = <<>>
    /\ cursor = [state |-> "none", pos |-> 0]
    /\ indexes = <<>>
    /\ success = TRUE
    /\ log = <<>>
    /\ entry = [tgt |-> tgt, src |-> src]
    /\ observed = [table_exists |-> FALSE, schemas_match |-> FALSE, blind |-> FALSE]
    /\ result = "none"
    /\ yielded = <<>>
    /\ calls = 0
    /\ open_cursors = 0
    /\ index_run = NoIndexRun
    /\ main = MainState("loop", 1)
    /\ previous = NoPrevious
    /\ fn \in [op : {"row_input"}, row : SeqsUpTo(Values, MaxWidth), cols : Schemas]
              \cup [op : {"query_input"}, n : 0..MaxRows, chunk_size : 1..MaxChunk]
              \cup [op : {"index_input"}, index : IndexDefinitions,
                    target_table : TargetNames]
              \cup [op : {"ddl_input"}, columns : SeqsUpTo(DdlColumns, MaxCols)]
              \cup [op : {"schema_input"}, s : ComparedSources,
                    t : ComparedTargets, q : [1..4 -> BOOLEAN]]

\* convert_value on one value of the row and the type of one column
ConvertValueCall ==
    /\ fn.op = "row_input"
    /\ \E i \in 1..Len(fn.row), j \in 1..Len(fn.cols) :
          fn' = [op |-> "convert_value", value |-> fn.row[i],
                 target_type |-> fn.cols[j].data_type,
                 out |-> ConvertValue(fn.row[i], fn.cols[j].data_type)]
    /\ UNCHANGED callVars

\* convert_row_values on the row and the schema
ConvertRowValuesCall ==
    /\ fn.op = "row_input"
    /\ fn' = [op |-> "convert_row_values", row |-> fn.row, cols |-> fn.cols,
              out |-> ConvertRowValues(fn.row, fn.cols)]
    /\ UNCHANGED callVars

\* lines 258-259: prepare_insert_statement on the column names of the schema
PrepareInsertStatementCall ==
    /\ fn.op = "row_input"
    /\ fn' = [op |-> "prepare_insert_statement", cols |-> fn.cols,
              out |-> PrepareInsertStatement("T", ColumnNames(fn.cols))]
    /\ UNCHANGED callVars

\* _get_data_in_chunks consumed to its end
GetDataInChunksCall ==
    /\ fn.op = "query_input"
    /\ fn' = [op |-> "_get_data_in_chunks", n |-> fn.n, chunk_size |-> fn.chunk_size,
              out |-> GetDataInChunks(0, fn.n, fn.chunk_size)]
    /\ UNCHANGED callVars

\* generate_index_ddl on an index and a target table name
GenerateIndexDdlCall ==
    /\ fn.op = "index_input"
    /\ fn' = [op |-> "generate_index_ddl", index |-> fn.index,
              target_table |-> fn.target_table,
              out |-> GenerateIndexDdl(fn.index, fn.target_table)]
    /\ UNCHANGED callVars

\* schemas_match on a source and a target table; q[1]..q[4] tell which of
\* its four dictionary queries succeed
SchemasMatchCall ==
    /\ fn.op = "schema_input"
    /\ fn' = [op |-> "schemas_match", s |-> fn.s, t |-> fn.t, q |-> fn.q,
              out |-> SchemasMatch(fn.s, fn.t, fn.q[1], fn.q[2], fn.q[3], fn.q[4])]
    /\ UNCHANGED callVars

\* generate_create_table_sql on a table whose schema read gives columns
GenerateCreateTableSqlCall ==
    /\ fn.op = "ddl_input"
    /\ fn' = [op |-> "generate_create_table_sql", columns |-> fn.columns,
              out |-> SqlParts("T", fn.columns)]
    /\ UNCHANGED callVars

NextPure ==
    \/ GenerateCreateTableSqlCall
    \/ SchemasMatchCall
    \/ GenerateIndexDdlCall
    \/ ConvertValueCall
    \/ ConvertRowValuesCall
    \/ PrepareInsertStatementCall
    \/ GetDataInChunksCall

SpecPure == InitPure /\ [][NextPure]_vars
---------------------------------------------------------------------------
(* Properties of migrate_table *)

\* the call has started / has returned / is past the existing-table policy
Started == pc # "idle" \/ result # "none"
Returned == pc = "idle" /\ result # "none"
Reconciled == Started /\ pc \notin {"table_exists", "reconcile"}

IsDdl(e) == e.op \in {"DROP", "CREATE"}
IsCopy(e) == e.op \in {"COUNT", "OPEN", "FETCH", "INSERT", "COMMIT"}
IsTransfer(e) == e.op \in {"OPEN", "FETCH", "INSERT", "COMMIT"}
DdlOps == Ops(SelectSeq(log, IsDdl))
IsPrefix(s, t) == Len(s) <= Len(t) /\ \A i \in 1..Len(s) : s[i] = t[i]

\* C1: in every execution of migrate_table, no DROP TABLE or CREATE TABLE is
\* executed once a batch insert has been issued: every DDL statement of the
\* call precedes its first INSERT.
C1_DdlBeforeFirstInsert ==
    \A i, j \in 1..Len(log) :
        (i < j /\ log[i].op = "INSERT") => ~IsDdl(log[j])

C1_Witness ==
    /\ HasOp(log, "DROP")
    /\ HasOp(log, "CREATE")
    /\ CountOp(log, "INSERT") >= 2
    /\ Returned

\* the target was seen to exist and drop_and_recreate is configured
C2_Case == Started /\ observed.table_exists /\ args.behavior = "drop_and_recreate"

\* C2 as stated: with an existing target and drop_and_recreate, the call
\* executes DROP TABLE exactly once and then CREATE TABLE exactly once.
C2_Original ==
    (Returned /\ C2_Case) => DdlOps = <<"DROP", "CREATE">>

\* C2 amended: with an existing target and drop_and_recreate, whatever
\* schemas_match returned, DROP TABLE is executed exactly once, before any
\* other DDL, count or data statement; CREATE TABLE is executed at most once,
\* only right after a DROP that succeeded (when the DROP succeeded and no
\* CREATE follows, the call has failed with no further statement); the row
\* count and the copy happen only after a successful DROP followed by a
\* successful CREATE.
C2_DropThenCreate ==
    C2_Case =>
        /\ DdlOps \in {<<>>, <<"DROP">>, <<"DROP", "CREATE">>}
        /\ Reconciled => (Len(log) >= 1 /\ log[1].op = "DROP")
        /\ HasOp(log, "CREATE") => (log[1].ok /\ log[2].op = "CREATE")
        /\ (Returned /\ log[1].ok /\ ~HasOp(log, "CREATE")) =>
               (result = "false" /\ Len(log) = 1)
        /\ (\E i \in 1..Len(log) : IsCopy(log[i])) =>
               (log[1].ok /\ log[2].op = "CREATE" /\ log[2].ok)

C2_Witness ==
    /\ C2_Case
    /\ observed.schemas_match
    /\ DdlOps = <<"DROP", "CREATE">>
    /\ \E i \in 1..Len(log) : log[i].op = "COMMIT" /\ log[i].ok
    /\ Returned

\* append_if_compatible met an existing target and schemas_match returned false
C3_Case ==
    /\ Reconciled
    /\ observed.table_exists
    /\ args.behavior = "append_if_compatible"
    /\ ~observed.schemas_match

C4_Case ==
    /\ Reconciled
    /\ observed.table_exists
    /\ args.behavior = "append_if_compatible"
    /\ observed.schemas_match

\* C4: with an existing target, append_if_compatible and matching schemas, the
\* call executes neither DROP TABLE nor CREATE TABLE and goes on to the row
\* count and the copy into the existing table, whose columns and earlier rows
\* stay.
C4_CompatibleAppendReuses ==
    C4_Case =>
        /\ ~HasOp(log, "DROP") /\ ~HasOp(log, "CREATE")
        /\ pc = "row_count" \/ (Len(log) >= 1 /\ log[1].op = "COUNT")
        /\ tgt.exists /\ tgt.schema = entry.tgt.schema
        /\ IsPrefix(entry.tgt.rows, tgt.rows)

C4_Witness ==
    /\ C4_Case
    /\ Len(entry.tgt.rows) > 0
    /\ Len(tgt.rows) > Len(entry.tgt.rows)
    /\ result = "true"

\* the target was seen not to exist
C5_Case == Started /\ pc # "table_exists" /\ ~observed.table_exists

\* C5 as stated: when the target does not exist the call executes CREATE
\* TABLE, and never DROP TABLE.
C5_Original ==
    (Returned /\ C5_Case) => (HasOp(log, "CREATE") /\ ~HasOp(log, "DROP"))

\* C5 amended: when the target does not exist, for any existing_table_behavior,
\* the call never executes DROP TABLE and goes to create_table: either CREATE
\* TABLE, with the source columns in source order, is its only DDL statement
\* and precedes the row count and the copy, or create_table got no source
\* schema and the call has failed without executing any DDL, count or data
\* statement.
C5_CreateNeverDrop ==
    C5_Case =>
        /\ ~HasOp(log, "DROP")
        /\ pc \in {"reconcile", "create"} => log = <<>>
        /\ pc \notin {"reconcile", "create"} =>
              \/ Returned /\ result = "false" /\ log = <<>>
              \/ /\ log[1].op = "CREATE"
                 /\ CountOp(log, "CREATE") = 1
                 /\ log[1].ok =>
                       /\ tgt.exists
                       /\ Len(tgt.schema) = Len(src.schema)
                       /\ \A i \in 1..Len(src.schema) :
                             /\ tgt.schema[i].name = src.schema[i].name
                             /\ tgt.schema[i].data_type = src.schema[i].data_type

C5_Witness ==
    /\ C5_Case
    /\ args.behavior = "invalid_behavior"
    /\ Len(log) >= 1 /\ log[1].op = "CREATE" /\ log[1].ok
    /\ result = "true"

\* the target was seen to exist and the behaviour is not a recognized one
C6_Case ==
    /\ Reconciled
    /\ observed.table_exists
    /\ args.behavior \notin {"drop_and_recreate", "append_if_compatible"}

\* C6: with an existing target and an unrecognized existing_table_behavior the
\* call returns failure, having executed no DDL and copied no row: no DDL,
\* count or data statement was issued and the target is as it was.
C6_InvalidBehaviorFails ==
    C6_Case =>
        /\ Returned /\ result = "false"
        /\ log = <<>>
        /\ rows_processed = 0
        /\ pending = <<>>
        /\ tgt = entry.tgt

C6_Witness ==
    /\ C6_Case
    /\ entry.tgt.exists
    /\ result = "false"

\* C7: a failed DROP TABLE or a failed CREATE TABLE is the last statement of
\* the call, which has returned failure: no CREATE follows a failed DROP, and
\* no row-count query, fetch or insert is performed.
C7_DdlFailureAborts ==
    \A i \in 1..Len(log) :
        (IsDdl(log[i]) /\ ~log[i].ok) =>
            /\ i = Len(log)
            /\ Returned /\ result = "false"
            /\ ~ \E j \in 1..Len(log) : IsCopy(log[j])
            /\ rows_processed = 0 /\ pending = <<>>
            /\ cursor.state = "none"

C7_Witness ==
    /\ Len(log) = 2
    /\ log[1] = Ev("DROP", TRUE, 0)
    /\ log[2] = Ev("CREATE", FALSE, 0)
    /\ result = "false"

\* C8: when the source table does not exist the call never returns anything
\* but failure and copies no row, whatever the target and the behaviour: no
\* INSERT is issued and the target gains no row.
C8_SourceMissingFails ==
    (Started /\ ~entry.src.exists) =>
        /\ Returned => result = "false"
        /\ result \in {"none", "false"}
        /\ rows_processed = 0
        /\ ~HasOp(log, "INSERT")
        /\ pending = <<>>
        /\ Len(tgt.rows) <= Len(entry.tgt.rows)

C8_Witness ==
    /\ ~entry.src.exists
    /\ observed.table_exists
    /\ args.behavior = "append_if_compatible"
    /\ Returned /\ result = "false"

\* the count query answered 0
C9_Case == HasOp(log, "COUNT") /\ log[Len(log)] = Ev("COUNT", TRUE, 0) /\ row_count = 0

\* C9: when the row count is 0 the reconciliation has been performed (CREATE
\* on a missing target, DROP then CREATE under drop_and_recreate, nothing on a
\* compatible append) and the call returns success with zero rows copied: the
\* count is its last statement, no cursor was opened, nothing fetched or
\* inserted.
C9_ZeroRowsSucceeds ==
    (\E i \in 1..Len(log) : log[i] = Ev("COUNT", TRUE, 0) /\ row_count = 0) =>
        /\ Returned /\ result = "true"
        /\ rows_processed = 0 /\ pending = <<>>
        /\ cursor.state = "none"
        /\ ~ \E j \in 1..Len(log) : IsTransfer(log[j])
        /\ log[Len(log)].op = "COUNT"
        /\ tgt.exists
        /\ ~observed.table_exists => Ops(log) = <<"CREATE", "COUNT">>
        /\ (observed.table_exists /\ args.behavior = "drop_and_recreate") =>
               Ops(log) = <<"DROP", "CREATE", "COUNT">>
        /\ (observed.table_exists /\ args.behavior = "append_if_compatible") =>
               (Ops(log) = <<"COUNT">> /\ tgt = entry.tgt)

C9_Witness ==
    /\ C9_Case
    /\ Ops(log) = <<"DROP", "CREATE", "COUNT">>
    /\ result = "true"

---------------------------------------------------------------------------
(* Row count, batches and the copy loop *)

\* C11: get_row_count returns 0 when the count query returns an empty result
\* (no rows): wherever migrate_table is about to count and the count query
\* gives no row, get_row_count does not raise and its value is 0.
C11_EmptyResultIsZero ==
    \A qok \in BOOLEAN :
        (pc = "row_count" /\ Len(CountQuery(args, qok)) = 0)
            => /\ ~GetRowCount(CountQuery(args, qok)).raised
               /\ GetRowCount(CountQuery(args, qok)).value = 0

\* all rows of a list of batches, in order
RECURSIVE Flatten(_)
Flatten(batches) ==
    IF Len(batches) = 0 THEN <<>> ELSE Head(batches) \o Flatten(Tail(batches))

\* C12: for every chunk size k >= 1 and every source result of n rows,
\* _get_data_in_chunks yields exactly ceil(n/k) batches, none of them empty,
\* every batch except possibly the last has exactly k rows, the batch sizes
\* sum to n, and the rows appear in cursor order without loss or duplication.
C12_BatchCompleteness ==
    fn.op = "_get_data_in_chunks" =>
        LET n == fn.n
            k == fn.chunk_size
            out == fn.out
        IN /\ Len(out) = (n + k - 1) \div k
           /\ \A i \in 1..Len(out) : Len(out[i]) > 0
           /\ \A i \in 1..(Len(out) - 1) : Len(out[i]) = k
           /\ Len(Flatten(out)) = n
           /\ Flatten(out) = [i \in 1..n |-> i]

C12_Witness ==
    /\ fn.op = "_get_data_in_chunks"
    /\ fn.n = 3
    /\ fn.chunk_size = 2
    /\ Len(fn.out) = 2
    /\ Len(fn.out[2]) = 1

IsCommitted(e) == e.op = "COMMIT" /\ e.ok
Committed == SelectSeq(log, IsCommitted)

\* C13: within one table copy, batch i is inserted and committed on the
\* target before batch i+1 is fetched from the source: at most one fetched
\* batch is uncommitted at any time, and commits happen in the same order as
\* fetches.
C13_CommitBeforeNextFetch ==
    /\ \A j \in 1..Len(log) :
          (log[j].op = "FETCH" /\ log[j].id > 1) =>
              \E h, i \in 1..(j - 1) :
                  /\ h < i
                  /\ log[h] = Ev("INSERT", TRUE, log[j].id - 1)
                  /\ log[i] = Ev("COMMIT", TRUE, log[j].id - 1)
    /\ Len(yielded) - Len(Committed) \in {0, 1}
    /\ \A i \in 1..Len(Committed) : Committed[i].id = i

C13_Witness ==
    /\ Len(Committed) >= 2
    /\ CountOp(log, "FETCH") >= 3
    /\ Len(yielded) = 3

\* the batches committed on the target so far, and the rows the target held
\* when the copy began
CommittedBatches == [i \in 1..Len(Committed) |-> yielded[Committed[i].id]]
BaseRows == IF HasOp(log, "CREATE") THEN <<>> ELSE entry.tgt.rows
Copying == pc \in {"fetch", "insert", "commit", "after_copy"} \/ HasOp(log, "OPEN")

\* C14: during a table copy the progress counter (rows_processed) never
\* decreases and, at every point, equals the total number of rows in batches
\* already committed on the target; each update advances it by the actual
\* size of the batch just committed, never by the requested chunk size.
C14_ProgressIsCommittedRows ==
    /\ [](Started => rows_processed = Len(Flatten(CommittedBatches)))
    /\ [](Copying => Len(tgt.rows) = Len(BaseRows) + rows_processed)
    /\ [][pc # "idle" => rows_processed' >= rows_processed]_vars
    /\ [][(pc # "idle" /\ rows_processed' # rows_processed) =>
              /\ pc = "commit"
              /\ IsCommitted(log'[Len(log')])
              /\ rows_processed' = rows_processed + Len(chunk)]_vars

C14_Witness ==
    /\ Len(Committed) = 2
    /\ args.chunk_size = 2
    /\ rows_processed = 3
    /\ Len(yielded[2]) = 1

C16_PriorBatchesStayCommitted ==
    \A h \in 1..Len(log) :
        (log[h].op = "INSERT" /\ ~log[h].ok) =>
            LET i == log[h].id
                prior == SubSeq(yielded, 1, i - 1)
            IN /\ Len(Committed) = i - 1
               /\ tgt.rows = BaseRows \o Flatten(prior)
               /\ Len(tgt.rows) - Len(BaseRows) = Len(Flatten(CommittedBatches))
               /\ \A r \in 1..Len(tgt.rows) :
                      \A q \in i..Len(yielded) :
                          \A s \in 1..Len(yielded[q]) : tgt.rows[r] # yielded[q][s]
               /\ pending = <<>>

C16_Witness ==
    /\ Len(log) >= 2
    /\ log[Len(log) - 1] = Ev("INSERT", FALSE, 2)
    /\ args.chunk_size = 2
    /\ Len(yielded) = 2
    /\ tgt.rows = BaseRows \o <<1, 2>>
    /\ Returned

---------------------------------------------------------------------------
(* The source cursor *)

\* C17: at every point of a run, at most one source streaming cursor opened
\* by _get_data_in_chunks is open: counting the cursors earlier table copies
\* left open together with the cursor of the current copy gives at most one,
\* also after a copy that was aborted by an insertion error.
C17_AtMostOneOpenCursor == open_cursors + OpenCount(cursor) <= 1

\* C18: every source cursor opened for a table scan is closed once the call
\* that opened it has returned True or False: after the first empty fetch
\* when the batches were consumed to the end, with no fetch after it, and
\* also when consumption stopped early because a batch insertion failed.
C18_CursorClosedOnReturn ==
    (Returned /\ result \in {"true", "false"} /\ cursor.state # "none") =>
        /\ cursor.state # "open"
        /\ CountOp(log, "CLOSE") <= 1
        /\ \A i, j \in 1..Len(log) :
              (log[i].op = "CLOSE" /\ i < j) => log[j].op # "FETCH"

---------------------------------------------------------------------------
(* The INSERT statement and the coercion of values *)

\* C19: the column list of the generated INSERT statement is the source
\* schema's column names in physical column order with placeholders :1..:n
\* in the same order, and for every row the i-th bound value is the i-th
\* value of the fetched row coerced against the i-th source-schema column
\* type.
C19_ColumnOrderPreserved ==
    /\ fn.op = "prepare_insert_statement" =>
          /\ Len(fn.out.columns) = Len(fn.cols)
          /\ Len(fn.out.placeholders) = Len(fn.cols)
          /\ \A i \in 1..Len(fn.cols) :
                /\ fn.out.columns[i] = fn.cols[i].name
                /\ fn.out.placeholders[i] = i
    /\ fn.op = "convert_row_values" =>
          /\ Len(fn.row) = Len(fn.cols) => Len(fn.out) = Len(fn.row)
          /\ \A i \in 1..Len(fn.out) :
                fn.out[i] = ConvertValue(fn.row[i], fn.cols[i].data_type)

C19_Witness ==
    /\ fn.op = "convert_row_values"
    /\ fn.row = <<PyInt, PyInt, PyNone>>
    /\ fn.cols = <<ColId, ColName, ColCreated>>
    /\ fn.out = <<PyInt, PyStr("123"), PyNone>>

\* C20: convert_value returns null for a null input whatever the target
\* type; for a non-null value that is not already a string and a
\* character-typed target column (VARCHAR2 or CHAR) it returns the value's
\* string form; for every other target type, and for string values, it
\* returns the value unchanged.
C20_CharacterColumnsStringified ==
    fn.op = "convert_value" =>
        fn.out = IF fn.value = PyNone THEN PyNone
                 ELSE IF fn.target_type \in {"VARCHAR2", "CHAR"} /\ fn.value.type # "str"
                      THEN Str(fn.value)
                 ELSE fn.value

---------------------------------------------------------------------------
(* Index migration *)

AttemptedIndexes ==
    [i \in 1..Len(index_run.attempted) |-> index_run.attempted[i].index]
IsCreateIndex(e) == e.op = "CREATE_INDEX"
CreateIndexEvents == SelectSeq(log, IsCreateIndex)
WithDdl(a) == a.ddl
AttemptedWithDdl == SelectSeq(index_run.attempted, WithDdl)
AllCreated == \A i \in 1..Len(index_run.attempted) : index_run.attempted[i].created

\* every discovered index is processed once, in discovery order, whatever
\* happened to the ones before it; CREATE INDEX is executed exactly for the
\* indexes whose DDL was generated
IndexesProcessedInOrder ==
    /\ IsPrefix(AttemptedIndexes, index_run.discovered)
    /\ index_run.returned # "none" => AttemptedIndexes = index_run.discovered
    /\ \A i \in 1..Len(index_run.attempted) :
          ~index_run.attempted[i].ddl => ~index_run.attempted[i].created
    /\ Len(CreateIndexEvents) = Len(AttemptedWithDdl)
    /\ \A i \in 1..Len(CreateIndexEvents) :
          /\ CreateIndexEvents[i].id = AttemptedWithDdl[i].index
          /\ CreateIndexEvents[i].ok = AttemptedWithDdl[i].created

CopyCompleted == HasOp(log, "CLOSE")

\* C22: whenever the data copy of a table completed without error,
\* migrate_table returns success regardless of the outcome of index
\* replication (discovery failure, DDL-generation failure, CREATE INDEX
\* failure or an exception inside index replication).
C22_IndexFailureNotFatal ==
    /\ (Returned /\ CopyCompleted) => result = "true"
    /\ (Returned /\ index_run.returned # "none") => result = "true"

C22_Witness ==
    /\ Returned
    /\ CopyCompleted
    /\ index_run.returned = "false"
    /\ \E i \in 1..Len(log) : log[i].op = "CREATE_INDEX" /\ ~log[i].ok
    /\ result = "true"

\* index discovery or CREATE INDEX has been performed, or is about to be
IndexActivity ==
    \/ HasOp(log, "DISCOVER")
    \/ HasOp(log, "CREATE_INDEX")
    \/ index_run # NoIndexRun
    \/ pc \in {"indexes", "index_loop"}

IsIndexEvent(e) == e.op \in {"DISCOVER", "CREATE_INDEX"}

\* C23: no index discovery and no CREATE INDEX is ever performed for a table
\* when migrate_indexes_globally is disabled, nor for a table whose
\* reconciliation, row-count query or data copy failed; when index
\* replication does run, it starts only after the last batch of that table
\* has been committed.
C23_IndexesOnlyAfterCopy ==
    /\ ~migrate_indexes_globally => ~IndexActivity
    /\ (Returned /\ result # "true") => ~IndexActivity
    /\ IndexActivity =>
          /\ CopyCompleted
          /\ Len(Committed) = Len(yielded)
          /\ Len(Flatten(CommittedBatches)) = QueryRows(args)
          /\ pending = <<>>
          /\ \A i \in 1..Len(log) : ~log[i].ok => IsIndexEvent(log[i])
    /\ \A i, j \in 1..Len(log) :
          (IsIndexEvent(log[i]) /\ i < j) => IsIndexEvent(log[j])

C23_Witness ==
    /\ HasOp(log, "DISCOVER")
    /\ HasOp(log, "CREATE_INDEX")
    /\ Len(Committed) = 2
    /\ migrate_indexes_globally

\* old occurs in s
Occurs(old, s) ==
    \E i \in 1..(Len(s) - Len(old) + 1) : SubSeq(s, i, i + Len(old) - 1) = old

\* C24: generate_index_ddl keeps the original index name unchanged when the
\* target table name has the same length as the index's owning table name;
\* otherwise the new name is the original name with the owning-table
\* substring replaced by the target table name, truncated to its first 30
\* characters, so it never exceeds 30 characters.
C24_IndexNameStability ==
    fn.op = "generate_index_ddl" =>
        LET name == fn.index.name
            old == fn.index.table_name
            new == fn.target_table
            replaced == StrReplace(name, old, new)
        IN /\ Len(new) = Len(old) => fn.out.name = name
           /\ Len(new) # Len(old) =>
                 /\ Len(fn.out.name) <= 30
                 /\ IsPrefix(fn.out.name, replaced)
                 /\ Len(fn.out.name) = Min(30, Len(replaced))
                 /\ ~Occurs(old, name) => IsPrefix(fn.out.name, name)
                 /\ Occurs(old, name) =>
                       \E i \in 1..Len(name) :
                           /\ SubSeq(name, i, i + Len(old) - 1) = old
                           /\ IsPrefix(Prefix(SubSeq(name, 1, i - 1) \o new, 30),
                                       fn.out.name)
           /\ fn.out.table = new
           /\ fn.out.unique = fn.index.is_unique

C24_Witness ==
    /\ fn.op = "generate_index_ddl"
    /\ fn.index.name = Repeat("X", 29) \o <<"T">>
    /\ fn.index.table_name = <<"T">>
    /\ fn.target_table = <<"U", "U">>
    /\ fn.out.name = Repeat("X", 29) \o <<"U">>

---------------------------------------------------------------------------
(* The run *)

Exited == main.stage = "exited"
BothConnected == main.source = "connected" /\ main.target = "connected"

\* C25: with both connections established, the run invokes migrate_table
\* exactly once for every configured table, in list order, whatever the
\* outcome of the tables before it: when main has returned, as many calls
\* were made as tables are configured.
C25_EveryTableProcessed == (Exited /\ BothConnected) => calls = main.tables

\* C26: an unexpected error raised while processing one table is converted
\* into a failure of that table only: the table is counted as failed and the
\* run continues with the next configured table, so that when main has
\* returned every configured table was processed and counted.
C26_UnexpectedErrorFailsTableOnly ==
    /\ (pc = "idle" /\ result = "raised" /\ Exited) =>
          /\ main.fail_count >= 1
          /\ calls = main.tables
    /\ Exited => main.success_count + main.fail_count = main.tables

\* C27: the exit status returned by main is non-zero if and only if at least
\* one table's migration failed.
C27_ExitStatusIffFailure == Exited => (main.exit # 0 <=> main.fail_count > 0)

\* C28: if connecting to the source or to the target database fails, the run
\* ends with a failure exit status and migrate_table is not invoked for any
\* table.
C28_ConnectFailureEndsRun ==
    (main.source = "failed" \/ main.target = "failed") =>
        /\ Exited
        /\ main.exit = 1
        /\ calls = 0
        /\ ~Started
        /\ log = <<>>

C28_Witness ==
    /\ main.source = "connected"
    /\ main.target = "failed"
    /\ main.tables = 2
    /\ main.exit = 1

\* C29: for a static source table of n rows and no injected failure,
\* running migrate_table with drop_and_recreate twice in a row leaves the
\* target table with the same row count (n) after the first run and after
\* the second run, whatever the target held before the first run.
C29_IdempotentRecreate ==
    (/\ previous.recreated
     /\ Returned
     /\ args.behavior = "drop_and_recreate"
     /\ ~UsesCustom(args)
     /\ result = "true"
     /\ NoFailure(log, index_run))
        => /\ src.exists
           /\ previous.rows = src.rows
           /\ Len(tgt.rows) = src.rows
           /\ tgt.exists
           /\ tgt.schema = CreatedSchema(GenerateCreateTableSql(src.schema))

C29_Witness ==
    /\ previous.recreated
    /\ previous.entry_rows = 1
    /\ previous.rows = 3
    /\ Returned
    /\ args.behavior = "drop_and_recreate"
    /\ ~UsesCustom(args)
    /\ result = "true"
    /\ NoFailure(log, index_run)
    /\ HasOp(log, "DROP")
    /\ Len(tgt.rows) = 3

\* two columns agree on name, data type, length, precision and scale
Agree(a, b) ==
    /\ a.name = b.name
    /\ a.data_type = b.data_type
    /\ a.data_length = b.data_length
    /\ a.data_precision = b.data_precision
    /\ a.data_scale = b.data_scale
SameColumns(x, y) ==
    /\ Len(x) = Len(y)
    /\ \A i \in 1..Len(x) : Agree(x[i], y[i])
AllQueriesSucceed(q) == \A i \in 1..4 : q[i]

---------------------------------------------------------------------------
(* The CREATE TABLE statement *)

\* the size suffixes the sizing rules allow for a column; the rules do not
\* say how a negative scale is rendered
AllowedSuffixes(col) ==
    LET p == ToString(col.data_precision)
        s == ToString(col.data_scale)
        l == ToString(col.data_length)
    IN IF col.data_type = "NUMBER"
       THEN IF col.data_precision = None THEN {<<>>}
            ELSE IF col.data_scale = None \/ col.data_scale = 0
                 THEN {<<"(", p, ")">>}
            ELSE IF col.data_scale > 0 THEN {<<"(", p, ",", s, ")">>}
            ELSE {<<"(", p, ")">>, <<"(", p, ",", s, ")">>}
       ELSE IF col.data_type \in {"VARCHAR2", "CHAR"} THEN {<<"(", l, ")">>}
       ELSE IF col.data_type = "RAW"
            THEN {IF col.data_length = None THEN <<"(", "2000", ")">>
                  ELSE <<"(", l, ")">>}
       ELSE {<<>>}

---------------------------------------------------------------------------
(* The run summary *)

\* how many of the calls of the run returned res
ReturnedCount(res) ==
    Cardinality({i \in 1..Len(main.returned) : main.returned[i] = res})

\* C32: when the run summary is produced, successCount is the number of
\* configured tables for which migrate_table returned true, failureCount is
\* the number for which it returned false, and their sum is the number of
\* configured tables.
C32_SummaryCounts ==
    main.summary =>
        /\ main.success_count = ReturnedCount("true")
        /\ main.fail_count = ReturnedCount("false")
        /\ main.success_count + main.fail_count = main.tables
        /\ Len(main.returned) = main.tables

C32_Witness ==
    /\ main.summary
    /\ main.tables = 2
    /\ main.returned = <<"false", "true">>
    /\ main.success_count = 1
    /\ main.fail_count = 1

---------------------------------------------------------------------------
(* Index replication for every migrated table *)

\* C33: when migrate_indexes_globally is enabled, every table for which
\* migrate_table returns success has had source-index discovery (and the
\* processing of each discovered index) performed for it exactly once,
\* including tables reported successful with zero rows.
C33_IndexesForEverySuccess ==
    (Returned /\ result = "true" /\ migrate_indexes_globally) =>
        /\ index_run.returned # "none"
        /\ AttemptedIndexes = index_run.discovered
        /\ CountOp(log, "DISCOVER") <= 1

---------------------------------------------------------------------------
(* A missing source table *)

\* C34: if the source table does not exist, migrate_table executes no DROP
\* TABLE on the target: an existing target table and its rows survive the
\* failed migration, also when existing_table_behavior is drop_and_recreate.
C34_MissingSourceKeepsTarget ==
    (Started /\ ~entry.src.exists) =>
        /\ ~HasOp(log, "DROP")
        /\ tgt = entry.tgt

---------------------------------------------------------------------------
(* No index to replicate *)

\* discovery was answered (with a list, or with a failed query reported as
\* an empty list) and gave no index
DiscoveredNothing ==
    /\ \E i \in 1..Len(log) : log[i].op = "DISCOVER"
    /\ index_run.discovered = <<>>

\* C35: if index discovery returns no index, or the discovery query fails
\* (which is reported as an empty index list), _migrate_indexes_for_table
\* returns true without generating any DDL or executing any CREATE INDEX.
C35_NoIndexTriviallySucceeds ==
    /\ DiscoveredNothing =>
          /\ index_run.returned = "true"
          /\ index_run.attempted = <<>>
          /\ ~HasOp(log, "CREATE_INDEX")
          /\ Returned
          /\ result = "true"
    /\ \A i \in 1..Len(log) :
          (log[i].op = "DISCOVER" /\ ~log[i].ok) => index_run.discovered = <<>>

C35_Witness ==
    /\ \E i \in 1..Len(log) : log[i].op = "DISCOVER" /\ ~log[i].ok
    /\ index_run.returned = "true"
    /\ Returned
    /\ Len(Committed) = 2

---------------------------------------------------------------------------
(* The tuples bound to the INSERT statement *)

\* the number of values of each tuple convert_row_values builds for the
\* rows of the effective query, and the number of placeholders of the
\* statement prepare_insert_statement built
BoundWidth == ConvertedWidth(QueryWidth(args), column_types)
Placeholders == Len(column_types)

\* C36: every tuple bound in a batch insert has exactly as many values as
\* the INSERT statement has placeholders, in full mode and in custom-query
\* mode alike, whatever the width of the rows the effective query returns.
C36_TupleWidthIsPlaceholders ==
    HasOp(log, "INSERT") => BoundWidth = Placeholders

---------------------------------------------------------------------------
(* The target table at insert time *)

\* a batch was inserted into the target
Inserted == \E i \in 1..Len(log) : log[i].op = "INSERT" /\ log[i].ok

\* every column named in the INSERT statement is a column of the target
InsertColumnsInTarget ==
    \A i \in 1..Len(column_types) :
        \E j \in 1..Len(tgt.schema) : tgt.schema[j].name = column_types[i].name

---------------------------------------------------------------------------
(* Appending keeps the rows of the target *)

\* C38: after a successful migrate_table with append_if_compatible onto an
\* existing compatible target that held m rows, with n rows returned by the
\* effective source query, the target holds m + n rows: no pre-existing
\* target row is removed or replaced.
C38_AppendKeepsRows ==
    (/\ Returned
     /\ result = "true"
     /\ args.behavior = "append_if_compatible"
     /\ observed.table_exists
     /\ observed.schemas_match)
        => /\ Len(tgt.rows) = Len(entry.tgt.rows) + QueryRows(args)
           /\ SubSeq(tgt.rows, 1, Len(entry.tgt.rows)) = entry.tgt.rows
           /\ tgt.exists
           /\ tgt.schema = entry.tgt.schema

C38_Witness ==
    /\ Returned
    /\ result = "true"
    /\ args.behavior = "append_if_compatible"
    /\ observed.table_exists
    /\ observed.schemas_match
    /\ Len(entry.tgt.rows) = 1
    /\ QueryRows(args) = 3
    /\ Len(tgt.rows) = 4

---------------------------------------------------------------------------
(* The connections at the end of main *)

\* C39: on every exit path of main after the two connection objects have
\* been constructed (connect failure of either side, empty table list,
\* normal completion, unexpected exception), disconnect is called on both
\* the source and the target connection before main returns; it is not
\* called while main is running.
C39_BothDisconnectedOnExit ==
    /\ (Exited /\ main.constructed = 2) =>
          main.disconnected = <<"source", "target">>
    /\ ~Exited => main.disconnected = <<>>

C39_Witness ==
    /\ Exited
    /\ main.constructed = 2
    /\ main.source = "connected"
    /\ main.target = "connected"
    /\ main.exit = 1
    /\ main.disconnected = <<"source", "target">>
====
